---- MODULE Spec2Model ----
(***************************************************************************)
(* The document-extraction demo: the FastAPI layer (main_fastapi.py), the  *)
(* extraction service (llm_services.py) and the Streamlit session          *)
(* (app_streamlit.py).                                                     *)
(*                                                                         *)
(* A request handler is a coroutine: it runs without interruption between  *)
(* two awaits, so each action below is the code between two suspension     *)
(* points of one handler.  pc[c] is where the request of client c stands:  *)
(*   "idle"      no request open                                           *)
(*   "file_read" suspended in `await file.read()`                          *)
(*   "generate"  suspended in `await model.generate_content_async(...)`    *)
(*   "done"      the HTTP response is in resp[c], until the client has     *)
(*               read it                                                   *)
(***************************************************************************)
EXTENDS Integers, Sequences, FiniteSets, TLC

VARIABLES
    document_store,   \* main_fastapi.py:25  file name -> [content, mime_type]
    agent_config,     \* main_fastapi.py:26
    req,              \* per client: the request it sent last
    pc,               \* per client: position of the handler of that request
    frame,            \* per client: the handler's locals
    resp,             \* per client: the HTTP response of that request
    nreq,             \* number of requests accepted from the direct clients
    session_state,    \* app_streamlit.py:49-66
    ui                \* the Streamlit script: widgets and where it blocks

vars == <<document_store, agent_config, req, pc, frame, resp, nreq, session_state, ui>>
api_vars == <<document_store, agent_config, req, pc, frame, resp, nreq>>
ui_vars == <<session_state, ui>>

-----------------------------------------------------------------------------
(* Bounds and input domains *)

\* requests the server accepts from the clients that call the API directly
MaxRequests == 2

ApiClients == {"c1", "c2"}
Clients == ApiClients \cup {"ui"}

\* "" is a part sent without a file name / without a content type
FileNames == {"", "bol.txt", "scan.pdf"}
ContentTypes == {"", "text/plain", "application/pdf"}
\* file bytes: "Hi" and a lone 0xFF, which is not UTF-8
FileContents == {<<72, 105>>, <<255>>}

\* Optional[str]: <<>> is None, <<s>> is the string s
None == <<>>
Some(s) == <<s>>

\* json.dumps of a list of strings: the JSON text, kept apart from the list
JsonDumps(fields) == <<"json", fields>>

\* free text is a sequence of characters, so that strip() can be computed
Instructions == {<<>>, <<" ">>, <<" ", "f">>}
FieldLists == {<<>>, <<"BOL Number">>}
Questions == {"", "Who is the carrier?"}

-----------------------------------------------------------------------------
(* bytes.decode('utf-8') *)

IsCont(b) == b >= 128 /\ b <= 191

\* length of the well-formed UTF-8 sequence that starts bytes[i], 0 if none does
Utf8SeqLen(bytes, i) ==
    LET n == Len(bytes)
        b0 == bytes[i]
        b1 == bytes[i + 1]
    IN  IF b0 <= 127 THEN 1
        ELSE IF b0 >= 194 /\ b0 <= 223
            THEN IF i + 1 <= n /\ IsCont(b1) THEN 2 ELSE 0
        ELSE IF b0 >= 224 /\ b0 <= 239
            THEN IF /\ i + 2 <= n
                    /\ IsCont(b1) /\ IsCont(bytes[i + 2])
                    /\ (b0 = 224 => b1 >= 160)
                    /\ (b0 = 237 => b1 <= 159)
                 THEN 3 ELSE 0
        ELSE IF b0 >= 240 /\ b0 <= 244
            THEN IF /\ i + 3 <= n
                    /\ IsCont(b1) /\ IsCont(bytes[i + 2]) /\ IsCont(bytes[i + 3])
                    /\ (b0 = 240 => b1 >= 144)
                    /\ (b0 = 244 => b1 <= 143)
                 THEN 4 ELSE 0
        ELSE 0

CodePoint(bytes, i, k) ==
    CASE k = 1 -> bytes[i]
      [] k = 2 -> (bytes[i] - 192) * 64 + (bytes[i + 1] - 128)
      [] k = 3 -> (bytes[i] - 224) * 4096 + (bytes[i + 1] - 128) * 64 + (bytes[i + 2] - 128)
      [] OTHER -> (bytes[i] - 240) * 262144 + (bytes[i + 1] - 128) * 4096
                    + (bytes[i + 2] - 128) * 64 + (bytes[i + 3] - 128)

RECURSIVE Utf8From(_, _)
\* [ok, text]: the code points of bytes[i..], or ok = FALSE (UnicodeDecodeError)
Utf8From(bytes, i) ==
    IF i > Len(bytes) THEN [ok |-> TRUE, text |-> <<>>]
    ELSE LET k == Utf8SeqLen(bytes, i)
         IN  IF k = 0 THEN [ok |-> FALSE, text |-> <<>>]
             ELSE LET rest == Utf8From(bytes, i + k)
                  IN  IF rest.ok
                      THEN [ok |-> TRUE, text |-> <<CodePoint(bytes, i, k)>> \o rest.text]
                      ELSE rest

decode_utf8(file_content) == Utf8From(file_content, 1)

-----------------------------------------------------------------------------
(* llm_services.py: the extraction service *)

BOL_TARGET_FIELDS ==
    <<"BOL Number", "Carrier Name", "Shipper Name", "Consignee Name", "Notify Party",
      "Port of Loading", "Port of Discharge", "Vessel Name", "Date of Issue",
      "Description of Goods", "Freight Class", "Declared Value",
      "Hazardous Material Information", "Signature">>

\* the template with its four substitutions
PromptText(file_name, additional_context) ==
    [template |-> "extraction_prompt_text_template",
     file_name |-> file_name,
     additional_context |-> additional_context,
     target_fields |-> BOL_TARGET_FIELDS,
     field_descriptions |-> "BOL_FIELD_DESCRIPTIONS"]

\* lines 98-115: up to the model call.  raised is "" or the exception's type.
extract_begin(file_content, file_name, mime_type) ==
    LET decoded == decode_utf8(file_content)
        additional_context ==
            IF mime_type = "text/plain"
            THEN <<"Document content:\n", decoded.text>>
            ELSE <<>>
        inline == IF mime_type # "text/plain"
                  THEN <<[inline_data |-> [mime_type |-> mime_type, data |-> file_content]]>>
                  ELSE <<>>
    IN  IF mime_type = "text/plain" /\ ~decoded.ok
        THEN [raised |-> "ValueError", message |-> "Invalid UTF-8 text file.",
              prompt_parts |-> <<>>]
        ELSE [raised |-> "", message |-> "",
              prompt_parts |-> <<PromptText(file_name, additional_context)>> \o inline]

\* What generate_content_async can come back with: it raises, or it returns a
\* response whose candidates hold the reply text.
TextBadJson == "{not json"
TextNoSummary == "{\"file_name\": \"other.pdf\", \"extracted_data\": []}"
TextNoFileName == "{\"extracted_data\": [{\"field_name\": \"BOL Number\", \"field_value\": \"B-1\"}], \"summary\": \"ok\"}"
TextWithFileName == "{\"file_name\": \"other.pdf\", \"extracted_data\": [{\"field_name\": \"BOL Number\", \"field_value\": \"B-1\"}], \"summary\": \"ok\"}"
ReplyTexts == {TextBadJson, TextNoSummary, TextNoFileName, TextWithFileName}

ModelReplies ==
    {[raises |-> TRUE, candidates |-> <<>>], [raises |-> FALSE, candidates |-> <<>>]}
    \cup {[raises |-> FALSE, candidates |-> <<t>>] : t \in ReplyTexts}

OneField == <<[field_name |-> "BOL Number", field_value |-> "B-1"]>>

\* json.loads on the reply texts above: [ok, dict]
json_loads(json_string) ==
    CASE json_string = TextNoSummary ->
            [ok |-> TRUE, dict |-> [file_name |-> "other.pdf", extracted_data |-> <<>>]]
      [] json_string = TextNoFileName ->
            [ok |-> TRUE, dict |-> [extracted_data |-> OneField, summary |-> "ok"]]
      [] json_string = TextWithFileName ->
            [ok |-> TRUE, dict |-> [file_name |-> "other.pdf", extracted_data |-> OneField,
                                    summary |-> "ok"]]
      [] OTHER -> [ok |-> FALSE, dict |-> [error |-> "JSONDecodeError"]]

\* DocumentExtract.model_validate: the three fields of lines 30-33 are required
model_validate(data_dict) ==
    {"file_name", "extracted_data", "summary"} \subseteq DOMAIN data_dict

NoExtract == [file_name |-> "", extracted_data |-> <<>>, summary |-> ""]

\* the sentinel record without the file name
ErrorExtractUnnamed(file_name, message) ==
    [file_name |-> "",
     extracted_data |-> <<[field_name |-> "Error", field_value |-> message]>>,
     summary |-> "Extraction failed due to an internal error."]

\* lines 137-141
ErrorExtract(file_name, message) ==
    [file_name |-> file_name,
     extracted_data |-> <<[field_name |-> "Error", field_value |-> message]>>,
     summary |-> "Extraction failed due to an internal error."]

\* str(e) of the exceptions the try block of lines 122-133 can see
NetworkErrorText == "503 Service Unavailable"
IndexErrorText == "list index out of range"
JSONDecodeErrorText == "Expecting property name enclosed in double quotes"
ValidationErrorText == "1 validation error for DocumentExtract"

Returned(value) == [raised |-> "", message |-> "", value |-> value]
Raised(type, message) == [raised |-> type, message |-> message, value |-> NoExtract]

\* lines 123-133, from the moment the model call comes back: the record, or
\* the exception that leaves the try block
try_body(reply, file_name) ==
    IF reply.raises
        THEN Raised("ServiceUnavailable", NetworkErrorText)
    ELSE IF reply.candidates = <<>>
        THEN Raised("IndexError", IndexErrorText)
    ELSE LET parsed == json_loads(reply.candidates[1])
             data_dict == IF "file_name" \in DOMAIN parsed.dict
                          THEN parsed.dict
                          ELSE [k \in DOMAIN parsed.dict \cup {"file_name"} |->
                                   IF k = "file_name" THEN file_name ELSE parsed.dict[k]]
         IN  IF ~parsed.ok
                 THEN Raised("JSONDecodeError", JSONDecodeErrorText)
             ELSE IF ~model_validate(data_dict)
                 THEN Raised("ValidationError", ValidationErrorText)
             ELSE Returned([file_name |-> data_dict.file_name,
                            extracted_data |-> data_dict.extracted_data,
                            summary |-> data_dict.summary])

\* the try block without its except clause
extract_finish_no_except(reply, file_name) == try_body(reply, file_name)

\* lines 122-141: any exception of the try block becomes the sentinel record
extract_finish(reply, file_name) ==
    LET outcome == try_body(reply, file_name)
    IN  IF outcome.raised # ""
        THEN Returned(ErrorExtract(file_name, outcome.message))
        ELSE outcome

-----------------------------------------------------------------------------
(* main_fastapi.py: the API layer *)

NoFile == [filename |-> "", content_type |-> "", data |-> <<>>]
NoConfig == [fields_to_extract |-> <<>>, special_instructions |-> <<>>]
NoPayload == [k \in {} |-> ""]
NoRequest ==
    [op |-> "", file |-> NoFile, special_instructions |-> None,
     target_fields_json |-> None, config |-> NoConfig, payload |-> NoPayload]

NoFrame ==
    [contents |-> <<>>, mime_type |-> "", passed |-> NoFile, prompt_parts |-> <<>>,
     llm_calls |-> 0, reply |-> None]

NoResponse == [status |-> 0, detail |-> <<>>, body |-> NoExtract]

\* detail is the message, in the pieces an f-string joins
HTTPException(status_code, detail) ==
    [status |-> status_code, detail |-> detail, body |-> NoExtract]
Ok(body) == [status |-> 200, detail |-> <<>>, body |-> body]

\* the files a client may send: every complete one, and one without a file
\* name, one without a content type
Files ==
    {[filename |-> n, content_type |-> t, data |-> d] :
        n \in FileNames \ {""}, t \in ContentTypes \ {""}, d \in FileContents}
    \cup {[filename |-> "", content_type |-> "text/plain", data |-> <<72, 105>>],
          [filename |-> "bol.txt", content_type |-> "", data |-> <<72, 105>>]}

\* the check without its second half
FileIsIncompleteNameOnly(file) == file.filename = ""

\* `if not file.filename or not file.content_type`
FileIsIncomplete(file) == file.filename = "" \/ file.content_type = ""

\* document_store.setdefault(...): an entry that exists is kept
StoreWriteKeepFirst(store, filename, contents, mime_type) ==
    [n \in DOMAIN store \cup {filename} |->
        IF n \in DOMAIN store THEN store[n]
        ELSE [content |-> contents, mime_type |-> mime_type]]

\* document_store[file.filename] = {"content": contents, "mime_type": mime_type}
StoreWrite(store, filename, contents, mime_type) ==
    [n \in DOMAIN store \cup {filename} |->
        IF n = filename THEN [content |-> contents, mime_type |-> mime_type]
        ELSE store[n]]

\* document_store.get(file_name)
StoreGet(store, file_name) ==
    IF file_name \in DOMAIN store THEN Some(store[file_name]) ELSE None

\* the handlers without their `except ValueError` clause
HandlerResponseNoValueError(outcome, prefix) ==
    IF outcome.raised = "" THEN Ok(outcome.value)
    ELSE HTTPException(500, <<prefix, outcome.message>>)

\* what the two upload handlers make of the extraction's outcome: the return
\* value, or the HTTPException of their except clauses
HandlerResponse(outcome, prefix) ==
    IF outcome.raised = "" THEN Ok(outcome.value)
    ELSE IF outcome.raised = "ValueError" THEN HTTPException(400, <<outcome.message>>)
    ELSE HTTPException(500, <<prefix, outcome.message>>)

\* the request of client c reaches the server
Send(c, request) ==
    /\ pc[c] = "idle"
    /\ c \in ApiClients => nreq < MaxRequests
    /\ nreq' = IF c \in ApiClients THEN nreq + 1 ELSE nreq
    /\ req' = [req EXCEPT ![c] = request]
    /\ frame' = [frame EXCEPT ![c] = NoFrame]

\* an upload handler from its entry to `await file.read()`
AcceptFile(c, request) ==
    /\ Send(c, request)
    /\ IF FileIsIncomplete(request.file)
       THEN /\ pc' = [pc EXCEPT ![c] = "done"]
            /\ resp' = [resp EXCEPT ![c] =
                          HTTPException(400, <<"Filename and content type are required.">>)]
       ELSE /\ pc' = [pc EXCEPT ![c] = "file_read"]
            /\ resp' = [resp EXCEPT ![c] = NoResponse]
    /\ UNCHANGED <<document_store, agent_config>>

\* the call with the request's instructions passed on into the prompt
CallExtractionSteered(request, passed) ==
    LET begun == extract_begin(passed.data, passed.filename, passed.content_type)
    IN  [begun EXCEPT !.prompt_parts =
            IF begun.raised = "" THEN @ \o <<request.special_instructions>> ELSE @]

\* the call made with the document the store held under the file name when
\* the handler resumed, where it held one
CallExtractionFromStore(request, passed) ==
    IF passed.filename \in DOMAIN document_store
    THEN extract_begin(document_store[passed.filename].content, passed.filename,
                       document_store[passed.filename].mime_type)
    ELSE extract_begin(passed.data, passed.filename, passed.content_type)

\* the call of lines 46-50 and 83-87: the request's steering inputs are not
\* among the arguments
CallExtraction(request, passed) ==
    extract_begin(passed.data, passed.filename, passed.content_type)

\* the handler taking its store write back when the extraction service raises
StoreAndExtractUndoOnError(c, prefix) ==
    /\ pc[c] = "file_read"
    /\ LET file == req[c].file
           contents == file.data
           mime_type == file.content_type
           passed == [filename |-> file.filename, content_type |-> mime_type,
                      data |-> contents]
           begun == CallExtraction(req[c], passed)
       IN  /\ document_store' =
                IF begun.raised # "" THEN document_store
                ELSE StoreWrite(document_store, file.filename, contents, mime_type)
           /\ IF begun.raised # ""
              THEN /\ pc' = [pc EXCEPT ![c] = "done"]
                   /\ resp' = [resp EXCEPT ![c] =
                                 HandlerResponse([raised |-> begun.raised,
                                                  message |-> begun.message,
                                                  value |-> NoExtract], prefix)]
                   /\ frame' = [frame EXCEPT ![c] =
                                  [NoFrame EXCEPT !.contents = contents,
                                                  !.mime_type = mime_type,
                                                  !.passed = passed]]
              ELSE /\ pc' = [pc EXCEPT ![c] = "generate"]
                   /\ resp' = resp
                   /\ frame' = [frame EXCEPT ![c] =
                                  [NoFrame EXCEPT !.contents = contents,
                                                  !.mime_type = mime_type,
                                                  !.passed = passed,
                                                  !.prompt_parts = begun.prompt_parts,
                                                  !.llm_calls = 1]]
    /\ UNCHANGED <<agent_config, req, nreq>>

\* an upload handler from the return of file.read() to the model call, or to
\* its response when the extraction service raises before the call
StoreAndExtract(c, prefix) ==
    /\ pc[c] = "file_read"
    /\ LET file == req[c].file
           contents == file.data
           mime_type == file.content_type
           passed == [filename |-> file.filename, content_type |-> mime_type,
                      data |-> contents]
           begun == CallExtraction(req[c], passed)
       IN  /\ document_store' = StoreWrite(document_store, file.filename, contents, mime_type)
           /\ IF begun.raised # ""
              THEN /\ pc' = [pc EXCEPT ![c] = "done"]
                   /\ resp' = [resp EXCEPT ![c] =
                                 HandlerResponse([raised |-> begun.raised,
                                                  message |-> begun.message,
                                                  value |-> NoExtract], prefix)]
                   /\ frame' = [frame EXCEPT ![c] =
                                  [NoFrame EXCEPT !.contents = contents,
                                                  !.mime_type = mime_type,
                                                  !.passed = passed]]
              ELSE /\ pc' = [pc EXCEPT ![c] = "generate"]
                   /\ resp' = resp
                   /\ frame' = [frame EXCEPT ![c] =
                                  [NoFrame EXCEPT !.contents = contents,
                                                  !.mime_type = mime_type,
                                                  !.passed = passed,
                                                  !.prompt_parts = begun.prompt_parts,
                                                  !.llm_calls = 1]]
    /\ UNCHANGED <<agent_config, req, nreq>>

\* the handler calling the model a second time after a failed first call
ReturnExtractRetry(c, reply, prefix) ==
    /\ pc[c] = "generate"
    /\ IF try_body(reply, frame[c].passed.filename).raised # "" /\ frame[c].llm_calls < 2
       THEN /\ pc' = pc
            /\ frame' = [frame EXCEPT ![c].llm_calls = @ + 1]
            /\ resp' = resp
       ELSE /\ pc' = [pc EXCEPT ![c] = "done"]
            /\ frame' = [frame EXCEPT ![c].reply = Some(reply)]
            /\ resp' = [resp EXCEPT ![c] =
                          HandlerResponse(extract_finish(reply, frame[c].passed.filename), prefix)]
    /\ UNCHANGED <<document_store, agent_config, req, nreq>>

\* an upload handler from the return of the model call to its response
ReturnExtract(c, reply, prefix) ==
    /\ pc[c] = "generate"
    /\ pc' = [pc EXCEPT ![c] = "done"]
    /\ frame' = [frame EXCEPT ![c].reply = Some(reply)]
    /\ resp' = [resp EXCEPT ![c] =
                  HandlerResponse(extract_finish(reply, frame[c].passed.filename), prefix)]
    /\ UNCHANGED <<document_store, agent_config, req, nreq>>

\* the client has read the response: the connection is closed
Close(c) ==
    /\ pc[c] = "done"
    /\ req' = [req EXCEPT ![c] = NoRequest]
    /\ pc' = [pc EXCEPT ![c] = "idle"]
    /\ frame' = [frame EXCEPT ![c] = NoFrame]
    /\ resp' = [resp EXCEPT ![c] = NoResponse]
    /\ UNCHANGED <<document_store, agent_config, nreq>>

(* POST /setup/upload_extract/ *)
setup_upload_and_extract(c, file, special_instructions, target_fields_json) ==
    AcceptFile(c, [NoRequest EXCEPT !.op = "upload_extract", !.file = file,
                                    !.special_instructions = special_instructions,
                                    !.target_fields_json = target_fields_json])

setup_upload_and_extract_store(c) ==
    /\ req[c].op = "upload_extract"
    /\ StoreAndExtract(c, "Error extracting data: ")

setup_upload_and_extract_return(c, reply) ==
    /\ req[c].op = "upload_extract"
    /\ ReturnExtract(c, reply, "Error extracting data: ")

(* POST /deploy/process_document/ *)
deploy_process_document(c, file) ==
    AcceptFile(c, [NoRequest EXCEPT !.op = "process_document", !.file = file])

deploy_process_document_store(c) ==
    /\ req[c].op = "process_document"
    /\ StoreAndExtract(c, "Error processing document: ")

deploy_process_document_return(c, reply) ==
    /\ req[c].op = "process_document"
    /\ ReturnExtract(c, reply, "Error processing document: ")

(* POST /setup/configure_agent/ *)
\* an empty value does not overwrite
ConfigUpdateUnlessEmpty(old, config) ==
    [fields_to_extract |->
        IF config.fields_to_extract = <<>> THEN old.fields_to_extract
        ELSE config.fields_to_extract,
     special_instructions |->
        IF config.special_instructions = <<>> THEN old.special_instructions
        ELSE config.special_instructions]

\* the two assignments torn apart: the second one lost to another request
ConfigUpdateTorn(old, config) ==
    [old EXCEPT !.fields_to_extract = config.fields_to_extract]

ConfigUpdate(old, config) ==
    [old EXCEPT !.fields_to_extract = config.fields_to_extract,
                !.special_instructions = config.special_instructions]

configure_agent_endpoint(c, config) ==
    /\ Send(c, [NoRequest EXCEPT !.op = "configure_agent", !.config = config])
    /\ agent_config' = ConfigUpdate(agent_config, config)
    /\ pc' = [pc EXCEPT ![c] = "done"]
    /\ resp' = [resp EXCEPT ![c] =
                  Ok([message |-> "Agent configuration finalized successfully!",
                      current_config |-> agent_config'])]
    /\ UNCHANGED document_store

(* POST /deploy/ask_question/ *)
\* payload.get(key)
PayloadGet(payload, key) ==
    IF key \in DOMAIN payload THEN Some(payload[key]) ELSE None

\* `not x` for an Optional[str]
Falsy(opt) == opt = None \/ opt[1] = ""

\* the handler without the lookup of lines 104-106
AskQuestionResponseNoLookup(payload, store) ==
    LET file_name == PayloadGet(payload, "file_name")
        question == PayloadGet(payload, "question")
    IN  IF Falsy(file_name) \/ Falsy(question)
            THEN HTTPException(400, <<"File name and question are required.">>)
        ELSE Ok([file_name |-> file_name[1], question |-> question[1],
                 answer |-> "Q&A feature is currently disabled in the BOL-only mode."])

AskQuestionResponse(payload, store) ==
    LET file_name == PayloadGet(payload, "file_name")
        question == PayloadGet(payload, "question")
    IN  IF Falsy(file_name) \/ Falsy(question)
            THEN HTTPException(400, <<"File name and question are required.">>)
        ELSE IF StoreGet(store, file_name[1]) = None
            THEN HTTPException(404, <<"Document '", file_name[1], "' not found.">>)
        ELSE Ok([file_name |-> file_name[1], question |-> question[1],
                 answer |-> "Q&A feature is currently disabled in the BOL-only mode."])

\* the handler handing the question of a stored document to the model
deploy_ask_question_asks_model(c, payload) ==
    /\ Send(c, [NoRequest EXCEPT !.op = "ask_question", !.payload = payload])
    /\ IF AskQuestionResponse(payload, document_store).status = 200
       THEN pc' = [pc EXCEPT ![c] = "generate"] /\ resp' = [resp EXCEPT ![c] = NoResponse]
       ELSE /\ pc' = [pc EXCEPT ![c] = "done"]
            /\ resp' = [resp EXCEPT ![c] = AskQuestionResponse(payload, document_store)]
    /\ UNCHANGED <<document_store, agent_config>>

deploy_ask_question(c, payload) ==
    /\ Send(c, [NoRequest EXCEPT !.op = "ask_question", !.payload = payload])
    /\ pc' = [pc EXCEPT ![c] = "done"]
    /\ resp' = [resp EXCEPT ![c] = AskQuestionResponse(payload, document_store)]
    /\ UNCHANGED <<document_store, agent_config>>

\* JSON bodies a client may send: either key may be missing or empty
Payloads ==
    {NoPayload, [file_name |-> "bol.txt"], [question |-> "Who is the carrier?"],
     [file_name |-> "", question |-> "Who is the carrier?"],
     [file_name |-> "bol.txt", question |-> ""]}
    \cup {[file_name |-> n, question |-> "Who is the carrier?"] : n \in FileNames \ {""}}

-----------------------------------------------------------------------------
(* app_streamlit.py: the session.  Every interaction reruns the script from *)
(* the top; a run that calls the API blocks in requests.post until the      *)
(* response is there, so such a run is two actions: up to the call, and     *)
(* from the response to the end of the script.  ui.at is the call the       *)
(* script blocks in.                                                        *)

InitSession ==
    [setup_extraction_result |-> None,
     agent_config_final |-> NoConfig,
     agent_configured_successfully |-> FALSE,
     deployment_result |-> None,
     current_doc_for_qa |-> None,
     setup_file_bytes |-> None,
     setup_file_meta |-> None,
     setup_special_instructions |-> <<>>,
     setup_selected_fields_for_llm |-> <<>>]

InitUi ==
    [at |-> "idle",
     conn_error |-> FALSE,              \* the call in progress never reached the server
     uploaded_file_deploy |-> None,     \* the deploy uploader's file in the blocked run
     user_selected_fields |-> <<>>,     \* the multiselect's value in the blocked run
     message |-> "",                    \* what the last run showed with st.warning / st.error
     configure_succeeded |-> FALSE]     \* history: a configure call of the session came back 2xx

\* what the two file uploaders can hold
UiFiles ==
    {[filename |-> "bol.txt", content_type |-> "text/plain", data |-> <<72, 105>>],
     [filename |-> "scan.pdf", content_type |-> "application/pdf", data |-> <<255>>]}

\* str.strip(): leading and trailing whitespace removed
IsSpace(ch) == ch \in {" ", "\t", "\n", "\r"}
RECURSIVE LStrip(_)
LStrip(str) ==
    IF str # <<>> /\ IsSpace(Head(str)) THEN LStrip(Tail(str)) ELSE str
RECURSIVE RStrip(_)
RStrip(str) ==
    IF str # <<>> /\ IsSpace(str[Len(str)]) THEN RStrip(SubSeq(str, 1, Len(str) - 1)) ELSE str
Strip(str) == RStrip(LStrip(str))

\* the field names in alphabetical order: sorted(...) over them
FieldOrder == <<"BOL Number", "Error">>
RECURSIVE SeqToSet(_)
SeqToSet(sq) == IF sq = <<>> THEN {} ELSE {Head(sq)} \cup SeqToSet(Tail(sq))
SelectIn(sq, set) ==
    LET F[i \in 0..Len(sq)] ==
            IF i = 0 THEN <<>>
            ELSE IF sq[i] \in set THEN F[i - 1] \o <<sq[i]>> ELSE F[i - 1]
    IN  F[Len(sq)]
\* sorted(list(set(names)))
SortedUnique(names) == SelectIn(FieldOrder, SeqToSet(names))

\* [item.get('field_name') for item in result['extracted_data']
\*      if item.get('field_name') and item.get('field_name') != 'N/A']
FieldNamesOf(result) ==
    LET data == result.extracted_data
        F[i \in 0..Len(data)] ==
            IF i = 0 THEN <<>>
            ELSE IF data[i].field_name # "" /\ data[i].field_name # "N/A"
                 THEN F[i - 1] \o <<data[i].field_name>> ELSE F[i - 1]
    IN  F[Len(data)]

\* call_api: response.json() of a 2xx response, None after raise_for_status
\* or when the connection failed
CallApiResult(conn_error, delivered, response) ==
    IF conn_error \/ ~delivered \/ response.status >= 400 THEN None
    ELSE Some(response.body)

\* lines 90-104: a file in the setup uploader that is not the session's file
\* replaces it and resets the setup stage
AfterUploaderCheck(ss, widget) ==
    IF widget = None THEN ss
    ELSE LET f == widget[1]
             new_file_uploaded ==
                \/ ss.setup_file_meta = None
                \/ ss.setup_file_meta[1].name # f.filename
                \/ ss.setup_file_bytes # Some(f.data)
         IN  IF new_file_uploaded
             THEN [ss EXCEPT !.setup_file_bytes = Some(f.data),
                             !.setup_file_meta = Some([name |-> f.filename, type |-> f.content_type]),
                             !.setup_extraction_result = None,
                             !.setup_special_instructions = <<>>,
                             !.setup_selected_fields_for_llm = <<>>]
             ELSE ss

\* line 174: the multiselect's options
MultiselectOptions(ss) ==
    IF ss.setup_extraction_result = None THEN <<>>
    ELSE SortedUnique(FieldNamesOf(ss.setup_extraction_result[1]))

\* what the multiselect can return: the options the user has ticked
Selections(options) == {SelectIn(options, t) : t \in SUBSET SeqToSet(options)}

\* lines 134-204: with a result in the session, step 2 is drawn and the two
\* widgets write their values into the session
RenderStep2(ss, selection, text) ==
    IF ss.setup_extraction_result = None THEN ss
    ELSE [ss EXCEPT !.setup_selected_fields_for_llm = SelectIn(selection, SeqToSet(MultiselectOptions(ss))),
                    !.setup_special_instructions = text]

\* `if st.session_state.setup_file_bytes and st.session_state.setup_file_meta`
HasSetupFile(ss) ==
    /\ ss.setup_file_bytes # None /\ ss.setup_file_bytes[1] # <<>>
    /\ ss.setup_file_meta # None

SetupFileOf(ss) ==
    [filename |-> ss.setup_file_meta[1].name,
     content_type |-> ss.setup_file_meta[1].type,
     data |-> ss.setup_file_bytes[1]]

\* the check without strip()
NothingToConfigureNoStrip(fields, instructions) ==
    fields = <<>> /\ instructions = <<>>

\* line 266: nothing to configure
NothingToConfigure(fields, instructions) ==
    fields = <<>> /\ Strip(instructions) = <<>>

\* the script blocks in call_api: the request reaches the server, whose
\* handler starts (Call), or the connection fails
Blocked(at) ==
    ui' = [ui EXCEPT !.at = at, !.conn_error = FALSE, !.message = "",
                     !.user_selected_fields = session_state'.setup_selected_fields_for_llm]
BlockedNoServer(at) ==
    /\ ui' = [ui EXCEPT !.at = at, !.conn_error = TRUE, !.message = "",
                        !.user_selected_fields = session_state'.setup_selected_fields_for_llm]
    /\ UNCHANGED api_vars

\* requests.post returns: the script goes on and the connection is closed
Resumes(at) ==
    /\ ui.at = at
    /\ IF ui.conn_error THEN UNCHANGED api_vars ELSE Close("ui")

\* lines 179-185: the selection the multiselect is drawn with
CurrentMultiselectSelection(ss) ==
    LET options == MultiselectOptions(ss)
        kept == SelectIn(ss.setup_selected_fields_for_llm, SeqToSet(options))
    IN  IF kept = <<>> /\ options # <<>> THEN options ELSE kept

\* step 2 drawn anew after a result came in: the widgets show their defaults
RenderDefaults(ss) ==
    RenderStep2(ss, CurrentMultiselectSelection(ss), ss.setup_special_instructions)

Idle(u) ==
    [u EXCEPT !.at = "idle", !.conn_error = FALSE, !.message = "",
              !.user_selected_fields = <<>>, !.uploaded_file_deploy = None]

\* a run in which no button is pressed: a file is put into or taken out of
\* the setup uploader, or the step-2 widgets are edited.  The uploader's file
\* is the session's file from this run on, so the runs below, in which the
\* uploader has not changed, pass lines 90-104 without effect.
UiRunSetup ==
    /\ ui.at = "idle"
    /\ \E widget \in {None} \cup {Some(f) : f \in UiFiles},
          selection \in Selections(FieldOrder), text \in Instructions :
        /\ ui' = [ui EXCEPT !.message = ""]
        /\ session_state' = RenderStep2(AfterUploaderCheck(session_state, widget), selection, text)
    /\ UNCHANGED api_vars

\* lines 106-114: "Perform Initial Extraction"
UiInitialExtract ==
    /\ ui.at = "idle"
    /\ HasSetupFile(session_state)
    /\ session_state' = session_state
    /\ \/ /\ setup_upload_and_extract("ui", SetupFileOf(session_state), Some(<<>>),
                                      Some(JsonDumps(<<>>)))
          /\ Blocked("initial_extract")
       \/ BlockedNoServer("initial_extract")

\* lines 120-131, then the rest of the script
UiInitialExtractResult ==
    /\ Resumes("initial_extract")
    /\ \E delivered \in BOOLEAN :
        LET result == CallApiResult(ui.conn_error, delivered, resp["ui"])
        IN  session_state' =
                IF result # None
                THEN RenderDefaults([session_state EXCEPT
                        !.setup_extraction_result = result,
                        !.setup_special_instructions = <<>>,
                        !.setup_selected_fields_for_llm = SortedUnique(FieldNamesOf(result[1]))])
                ELSE [session_state EXCEPT !.setup_extraction_result = None]
    /\ ui' = Idle(ui)

\* lines 206-223: "Re-run Extraction with Selected Fields & Instructions"
UiRerun ==
    /\ ui.at = "idle"
    /\ session_state.setup_extraction_result # None
    /\ HasSetupFile(session_state)
    /\ session_state' = session_state
    /\ \/ /\ setup_upload_and_extract("ui", SetupFileOf(session_state),
                                      Some(session_state.setup_special_instructions),
                                      Some(JsonDumps(session_state.setup_selected_fields_for_llm)))
          /\ Blocked("rerun")
       \/ BlockedNoServer("rerun")

\* lines 229-256; st.rerun() starts the script again, which draws step 2 anew
UiRerunResult ==
    /\ Resumes("rerun")
    /\ \E delivered \in BOOLEAN :
        LET result_rerun == CallApiResult(ui.conn_error, delivered, resp["ui"])
            newly == FieldNamesOf(result_rerun[1])
            preserved == SelectIn(ui.user_selected_fields, SeqToSet(newly))
        IN  session_state' =
                IF result_rerun # None
                THEN RenderDefaults([session_state EXCEPT
                        !.setup_extraction_result = result_rerun,
                        !.setup_selected_fields_for_llm =
                            IF preserved = <<>> /\ newly # <<>> THEN newly ELSE preserved])
                ELSE session_state
    /\ ui' = Idle(ui)

\* lines 263-277: "Set Final Agent Configuration"
UiSetFinalConfig ==
    /\ ui.at = "idle"
    /\ session_state.setup_extraction_result # None
    /\ session_state' = session_state
    /\ LET final_selected_fields_for_config == session_state.setup_selected_fields_for_llm
           final_config_payload ==
               [fields_to_extract |-> final_selected_fields_for_config,
                special_instructions |-> session_state.setup_special_instructions]
       IN  IF NothingToConfigure(final_selected_fields_for_config,
                                 session_state.setup_special_instructions)
           THEN /\ ui' = [ui EXCEPT !.message =
                            "Please select at least one primary field or provide special instructions."]
                /\ UNCHANGED api_vars
           ELSE \/ /\ configure_agent_endpoint("ui", final_config_payload)
                   /\ Blocked("configure")
                \/ BlockedNoServer("configure")

\* `if response:` of line 278
ConfigureAccepted(response) == response # None

\* lines 278-285
UiSetFinalConfigResult ==
    /\ Resumes("configure")
    /\ \E delivered \in BOOLEAN :
        LET response == CallApiResult(ui.conn_error, delivered, resp["ui"])
        IN  /\ session_state' =
                IF ConfigureAccepted(response)
                THEN [session_state EXCEPT
                        !.agent_config_final = response[1].current_config,
                        !.agent_configured_successfully = TRUE]
                ELSE session_state
            /\ ui' = [Idle(ui) EXCEPT
                        !.configure_succeeded = @ \/ response # None,
                        !.message = IF ConfigureAccepted(response) THEN ""
                                    ELSE "Failed to set final agent configuration."]

\* tab 2 without its gate
ProcessingStageAlwaysOpen(ss) == TRUE

\* line 290: the processing stage is drawn only once the agent is configured
ProcessingStageOpen(ss) == ss.agent_configured_successfully

\* lines 297-305: a file in the deploy uploader and "Process Document with
\* Agent"
UiProcess ==
    /\ ui.at = "idle"
    /\ ProcessingStageOpen(session_state)
    /\ session_state' = session_state
    /\ \E uploaded_file_deploy \in UiFiles :
        \/ /\ deploy_process_document("ui", uploaded_file_deploy)
           /\ ui' = [ui EXCEPT !.at = "process", !.conn_error = FALSE, !.message = "",
                               !.uploaded_file_deploy = Some(uploaded_file_deploy)]
        \/ /\ ui' = [ui EXCEPT !.at = "process", !.conn_error = TRUE, !.message = "",
                               !.uploaded_file_deploy = Some(uploaded_file_deploy)]
           /\ UNCHANGED api_vars

\* lines 306-309
UiProcessResult ==
    /\ Resumes("process")
    /\ \E delivered \in BOOLEAN :
        LET result == CallApiResult(ui.conn_error, delivered, resp["ui"])
        IN  session_state' =
                IF result # None
                THEN [session_state EXCEPT
                        !.deployment_result = result,
                        !.current_doc_for_qa = Some([file_name |-> ui.uploaded_file_deploy[1].filename])]
                ELSE [session_state EXCEPT !.deployment_result = None]
    /\ ui' = Idle(ui)

\* the question box drawn whenever a result is held
QaOfferedForAnyResult(ss) ==
    /\ ss.deployment_result # None
    /\ ss.current_doc_for_qa # None

\* lines 310, 331: the question box is drawn for the document processed last
QaOffered(ss) ==
    /\ ss.deployment_result # None
    /\ ss.current_doc_for_qa # None
    /\ ss.current_doc_for_qa[1].file_name = ss.deployment_result[1].file_name

\* lines 333-339: "Ask Question"
UiAsk ==
    /\ ui.at = "idle"
    /\ ProcessingStageOpen(session_state)
    /\ QaOffered(session_state)
    /\ session_state' = session_state
    /\ \E question_deploy \in Questions :
        IF question_deploy # ""
        THEN \/ /\ deploy_ask_question("ui",
                        [file_name |-> session_state.current_doc_for_qa[1].file_name,
                         question |-> question_deploy])
                /\ Blocked("ask")
             \/ BlockedNoServer("ask")
        ELSE /\ ui' = [ui EXCEPT !.message = "Please enter a question."]
             /\ UNCHANGED api_vars

\* line 338: the answer is shown, the session keeps nothing of it
UiAskResult ==
    /\ Resumes("ask")
    /\ ui' = Idle(ui)
    /\ UNCHANGED session_state

-----------------------------------------------------------------------------
(* The server with clients that call the API directly *)

Init ==
    /\ document_store = [n \in {} |-> NoFile]
    /\ agent_config = NoConfig
    /\ req = [c \in Clients |-> NoRequest]
    /\ pc = [c \in Clients |-> "idle"]
    /\ frame = [c \in Clients |-> NoFrame]
    /\ resp = [c \in Clients |-> NoResponse]
    /\ nreq = 0
    /\ session_state = InitSession
    /\ ui = InitUi

\* the session is shown three of the replies: a failure and the two valid ones
RepliesTo(c) ==
    IF c = "ui"
    THEN {[raises |-> TRUE, candidates |-> <<>>],
          [raises |-> FALSE, candidates |-> <<TextNoFileName>>],
          [raises |-> FALSE, candidates |-> <<TextWithFileName>>]}
    ELSE ModelReplies

SteeringInputs ==
    {<<None, None>>, <<Some(<<" ", "f">>), Some(JsonDumps(<<"BOL Number">>))>>}

ClientUpload ==
    \E c \in ApiClients, file \in Files, steer \in SteeringInputs :
        setup_upload_and_extract(c, file, steer[1], steer[2]) /\ UNCHANGED ui_vars
ClientProcess ==
    \E c \in ApiClients, file \in Files :
        deploy_process_document(c, file) /\ UNCHANGED ui_vars
ClientConfigure ==
    \E c \in ApiClients, f \in FieldLists, i \in Instructions :
        configure_agent_endpoint(c, [fields_to_extract |-> f, special_instructions |-> i])
        /\ UNCHANGED ui_vars
ClientAsk ==
    \E c \in ApiClients, payload \in Payloads :
        deploy_ask_question(c, payload) /\ UNCHANGED ui_vars
ClientClose ==
    \E c \in ApiClients : Close(c) /\ UNCHANGED ui_vars
UploadStore ==
    \E c \in Clients : setup_upload_and_extract_store(c) /\ UNCHANGED ui_vars
UploadReturn ==
    \E c \in Clients : \E reply \in RepliesTo(c) :
        setup_upload_and_extract_return(c, reply) /\ UNCHANGED ui_vars
ProcessStore ==
    \E c \in Clients : deploy_process_document_store(c) /\ UNCHANGED ui_vars
ProcessReturn ==
    \E c \in Clients : \E reply \in RepliesTo(c) :
        deploy_process_document_return(c, reply) /\ UNCHANGED ui_vars

Next ==
    \/ ClientUpload
    \/ ClientProcess
    \/ ClientConfigure
    \/ ClientAsk
    \/ ClientClose
    \/ UploadStore
    \/ UploadReturn
    \/ ProcessStore
    \/ ProcessReturn

Spec == Init /\ [][Next]_vars

\* `await file.read()` of the request of c completes
FileReadCompletes(c) ==
    (setup_upload_and_extract_store(c) \/ deploy_process_document_store(c))
    /\ UNCHANGED ui_vars

\* `await model.generate_content_async(...)` of the request of c completes:
\* it returns or it raises
ModelCompletes(c) ==
    \E reply \in RepliesTo(c) :
        (setup_upload_and_extract_return(c, reply) \/ deploy_process_document_return(c, reply))
        /\ UNCHANGED ui_vars

\* The server when every await completes: the event loop resumes a handler
\* whose awaited read or model call has finished.
SpecLive ==
    /\ Spec
    /\ \A c \in Clients : WF_vars(FileReadCompletes(c))
    /\ \A c \in Clients : WF_vars(ModelCompletes(c))

-----------------------------------------------------------------------------
(* One Streamlit session against the server *)

NextUi ==
    \/ UiRunSetup
    \/ UiInitialExtract
    \/ UiInitialExtractResult
    \/ UiRerun
    \/ UiRerunResult
    \/ UiSetFinalConfig
    \/ UiSetFinalConfigResult
    \/ UiProcess
    \/ UiProcessResult
    \/ UiAsk
    \/ UiAskResult
    \/ UploadStore
    \/ UploadReturn
    \/ ProcessStore
    \/ ProcessReturn

SpecUi == Init /\ [][NextUi]_vars

-----------------------------------------------------------------------------
(* The claims *)

ExtractionOps == {"upload_extract", "process_document"}

\* the request of c has been answered
Answered(c) == pc[c] = "done"

\* the file of the request is declared as plain text and is not UTF-8
UndecodableText(file) ==
    /\ ~FileIsIncomplete(file)
    /\ file.content_type = "text/plain"
    /\ ~decode_utf8(file.data).ok

HasErrorSentinel(body) ==
    \E i \in 1..Len(body.extracted_data) : body.extracted_data[i].field_name = "Error"

Arrives(c) == pc[c] = "idle" /\ pc'[c] # "idle"

\* the handler of c writes the store in this step
StoreStep(c) == pc[c] = "file_read" /\ pc'[c] # "file_read"

AskInputsPresent(payload) ==
    /\ {"file_name", "question"} \subseteq DOMAIN payload
    /\ payload["file_name"] # "" /\ payload["question"] # ""

\* C2: an ask-question request with a question and a file name that no
\* upload has stored is answered 404 and carries no answer.
C2_UnknownFileIs404 ==
    [][\A c \in Clients :
        (/\ Arrives(c)
         /\ req'[c].op = "ask_question"
         /\ AskInputsPresent(req'[c].payload)
         /\ req'[c].payload["file_name"] \notin DOMAIN document_store)
        => /\ pc'[c] = "done"
           /\ resp'[c].status = 404
           /\ resp'[c].body = NoExtract]_vars

\* a 404 for one name while the store holds another
C2_Witness ==
    \E c \in Clients :
        /\ Answered(c) /\ req[c].op = "ask_question"
        /\ AskInputsPresent(req[c].payload)
        /\ resp[c].status = 404
        /\ DOMAIN document_store # {}
        /\ req[c].payload["file_name"] \notin DOMAIN document_store

\* C3: the store is last-write-wins per file name: a store write puts the
\* bytes and the MIME type of its request under the request's file name,
\* whatever was there, leaves every other name alone, and nothing else
\* changes the store.
C3_LastWriteWins ==
    [][/\ \A c \in Clients :
            StoreStep(c) =>
                /\ DOMAIN document_store' = DOMAIN document_store \cup {req[c].file.filename}
                /\ document_store'[req[c].file.filename] =
                        [content |-> req[c].file.data, mime_type |-> req[c].file.content_type]
                /\ \A n \in DOMAIN document_store \ {req[c].file.filename} :
                        document_store'[n] = document_store[n]
       /\ (\A c \in Clients : ~StoreStep(c)) => document_store' = document_store]_vars

\* two requests with the same file name and different bytes have both
\* written; the store holds the bytes of one of them only
C3_Witness ==
    \E c1, c2 \in Clients :
        /\ c1 # c2
        /\ pc[c1] \in {"generate", "done"} /\ pc[c2] \in {"generate", "done"}
        /\ frame[c1].passed.filename = frame[c2].passed.filename
        /\ frame[c1].passed.filename \in DOMAIN document_store
        /\ frame[c1].contents # frame[c2].contents
        /\ document_store[frame[c1].passed.filename].content = frame[c1].contents

\* C4: a configure-agent request replaces both fields of the agent
\* configuration by the payload's, an empty payload included, and echoes the
\* payload as current_config.
C4_ConfigureReplaces ==
    [][\A c \in Clients :
        (Arrives(c) /\ req'[c].op = "configure_agent")
        => /\ agent_config' = req'[c].config
           /\ pc'[c] = "done"
           /\ resp'[c].status = 200
           /\ resp'[c].body.current_config = req'[c].config]_vars

\* the empty configuration has replaced a non-empty one
C4_Witness ==
    \E c1, c2 \in Clients :
        /\ Answered(c1) /\ req[c1].op = "configure_agent"
        /\ Answered(c2) /\ req[c2].op = "configure_agent"
        /\ req[c1].config.fields_to_extract # <<>>
        /\ req[c1].config.special_instructions # <<>>
        /\ req[c2].config = NoConfig
        /\ resp[c2].body.current_config = NoConfig
        /\ agent_config = NoConfig

NothingChosen(ss) ==
    /\ ss.setup_selected_fields_for_llm = <<>>
    /\ Strip(ss.setup_special_instructions) = <<>>

\* C5: with no field selected and blank instructions, no step of the idle
\* session, 'Set Final Agent Configuration' included, sends a configure-agent
\* request or changes agent_configured_successfully or agent_config_final.
C5_EmptyConfigRejected ==
    [][(ui.at = "idle" /\ NothingChosen(session_state))
        => /\ ui'.at # "configure"
           /\ req'["ui"].op # "configure_agent"
           /\ agent_config' = agent_config
           /\ session_state'.agent_configured_successfully
                = session_state.agent_configured_successfully
           /\ session_state'.agent_config_final = session_state.agent_config_final]_vars

\* the button was pressed with whitespace for instructions: the warning of
\* line 267 is on the screen
C5_Witness ==
    /\ ui.message = "Please select at least one primary field or provide special instructions."
    /\ ui.at = "idle"
    /\ session_state.setup_selected_fields_for_llm = <<>>
    /\ session_state.setup_special_instructions = <<" ">>
    /\ ~session_state.agent_configured_successfully

\* C6: the session sends a process-document or ask-question request only
\* after one of its configure-agent requests came back successful, and the
\* processing stage is open only then.
C6_ProcessingGated ==
    /\ (ui.at \in {"process", "ask"}) => ui.configure_succeeded
    /\ (req["ui"].op \in {"process_document", "ask_question"}) => ui.configure_succeeded
    /\ session_state.agent_configured_successfully => ui.configure_succeeded

\* a process-document request of the session is with the server
C6_Witness ==
    /\ ui.at = "process"
    /\ req["ui"].op = "process_document"
    /\ pc["ui"] = "generate"
    /\ ui.configure_succeeded

\* what goes wrong with a reply, "" when it is a valid DocumentExtract
ReplyFailure(reply) ==
    IF reply.raises THEN NetworkErrorText
    ELSE IF reply.candidates = <<>> THEN IndexErrorText
    ELSE IF ~json_loads(reply.candidates[1]).ok THEN JSONDecodeErrorText
    ELSE IF ~({"extracted_data", "summary"} \subseteq DOMAIN json_loads(reply.candidates[1]).dict)
        THEN ValidationErrorText
    ELSE ""

\* the model was called for the request of c and has come back
Replied(c) == Answered(c) /\ req[c].op \in ExtractionOps /\ frame[c].reply # None

\* C7: when the model call fails or its reply is no DocumentExtract, the
\* request is answered 200 with the request's file name, the single field
\* "Error" carrying the failure message, and the failure summary.
C7_ModelFailureAbsorbed ==
    \A c \in Clients :
        (Replied(c) /\ ReplyFailure(frame[c].reply[1]) # "")
        => /\ resp[c].status = 200
           /\ resp[c].body.file_name = req[c].file.filename
           /\ Len(resp[c].body.extracted_data) = 1
           /\ resp[c].body.extracted_data[1].field_name = "Error"
           /\ resp[c].body.extracted_data[1].field_value = ReplyFailure(frame[c].reply[1])
           /\ resp[c].body.summary = "Extraction failed due to an internal error."

\* two requests answered after two different failures
C7_Witness ==
    \E c1, c2 \in Clients :
        /\ Replied(c1) /\ frame[c1].reply[1].raises
        /\ Replied(c2) /\ ReplyFailure(frame[c2].reply[1]) = ValidationErrorText
        /\ resp[c1].status = 200 /\ resp[c2].status = 200

MissingInput(request) ==
    \/ request.op \in ExtractionOps
        /\ (request.file.filename = "" \/ request.file.content_type = "")
    \/ request.op = "ask_question" /\ ~AskInputsPresent(request.payload)

\* C8: a request with a missing client input is answered 400 on arrival and
\* changes neither the document store nor the agent configuration.
C8_MissingInputIs400 ==
    [][\A c \in Clients :
        (Arrives(c) /\ MissingInput(req'[c]))
        => /\ pc'[c] = "done"
           /\ resp'[c].status = 400
           /\ document_store' = document_store
           /\ agent_config' = agent_config]_vars

\* the question is empty for a file the store holds: 400, not an answer
C8_Witness ==
    \E c \in Clients :
        /\ Answered(c) /\ req[c].op = "ask_question"
        /\ "file_name" \in DOMAIN req[c].payload
        /\ req[c].payload["file_name"] \in DOMAIN document_store
        /\ MissingInput(req[c])
        /\ resp[c].status = 400

\* the file_name a valid reply carries, None for a failure or a reply without
EffectiveReplyName(reply) ==
    IF ReplyFailure(reply) = "" /\ "file_name" \in DOMAIN json_loads(reply.candidates[1]).dict
    THEN Some(json_loads(reply.candidates[1]).dict.file_name)
    ELSE None

InstructionsEmpty(request) ==
    request.special_instructions \in {None, Some(<<>>)}

SameCall(c1, c2) ==
    /\ Replied(c1) /\ Replied(c2)
    /\ resp[c1].status = 200 /\ resp[c2].status = 200
    /\ req[c1].file.filename = req[c2].file.filename
    /\ req[c1].file.data = req[c2].file.data
    /\ InstructionsEmpty(req[c1]) /\ InstructionsEmpty(req[c2])

\* C9 as stated: two extraction calls with the same file name, the same bytes
\* and empty instructions return records with the same file_name, whatever
\* the model replies.
C9_SameFileNameAlways ==
    \A c1, c2 \in Clients :
        SameCall(c1, c2) => resp[c1].body.file_name = resp[c2].body.file_name

\* C9 amended: the record's file_name is the request's file name unless a
\* valid reply carries a file_name of its own, which is then returned as it
\* is; so two such calls return the same file_name whenever their replies
\* agree on that file_name (or both carry none, or fail).
C9_SameFileNameIfRepliesAgree ==
    /\ \A c \in Clients :
        (Replied(c) /\ resp[c].status = 200)
        => resp[c].body.file_name =
              IF EffectiveReplyName(frame[c].reply[1]) = None
              THEN req[c].file.filename
              ELSE EffectiveReplyName(frame[c].reply[1])[1]
    /\ \A c1, c2 \in Clients :
        (/\ SameCall(c1, c2)
         /\ EffectiveReplyName(frame[c1].reply[1]) = EffectiveReplyName(frame[c2].reply[1]))
        => resp[c1].body.file_name = resp[c2].body.file_name

\* the same file twice, one call failed and one reply without a file_name
C9_Witness ==
    \E c1, c2 \in Clients :
        /\ c1 # c2 /\ SameCall(c1, c2)
        /\ ReplyFailure(frame[c1].reply[1]) # ""
        /\ frame[c2].reply[1].candidates = <<TextNoFileName>>
        /\ resp[c1].body.file_name = req[c1].file.filename
        /\ resp[c2].body.file_name = req[c1].file.filename

\* the model has been called for the request of c
Called(c) == pc[c] \in {"generate", "done"} /\ frame[c].llm_calls = 1

\* C10: the prompt and attachments sent to the model are those of the same
\* file sent with no steering inputs under any agent configuration, two
\* requests with the same file send the same, and no step of an
\* upload-and-extract handler changes the agent configuration.
C10_SteeringIgnored ==
    /\ [](/\ \A c \in Clients :
              Called(c) =>
                 frame[c].prompt_parts =
                    CallExtraction([NoRequest EXCEPT !.file = req[c].file], req[c].file).prompt_parts
          /\ \A c1, c2 \in Clients :
              (Called(c1) /\ Called(c2) /\ req[c1].file = req[c2].file)
              => frame[c1].prompt_parts = frame[c2].prompt_parts)
    /\ [][\A c \in Clients :
            (pc'[c] # pc[c] /\ (req[c].op = "upload_extract" \/ req'[c].op = "upload_extract"))
            => agent_config' = agent_config]_vars

\* the same file sent with and without steering inputs, after the agent was
\* configured or not: the model got the same prompt
C10_Witness ==
    \E c1, c2 \in Clients :
        /\ Called(c1) /\ Called(c2)
        /\ req[c1].op = "upload_extract" /\ req[c2].op = "upload_extract"
        /\ req[c1].file = req[c2].file
        /\ req[c1].special_instructions = None
        /\ req[c2].special_instructions # None
        /\ req[c2].target_fields_json # None
        /\ frame[c1].prompt_parts = frame[c2].prompt_parts

\* the request of c, just arrived, asks a question about a stored document
AsksAboutStored(c) ==
    /\ Arrives(c)
    /\ req'[c].op = "ask_question"
    /\ AskInputsPresent(req'[c].payload)
    /\ req'[c].payload["file_name"] \in DOMAIN document_store

\* C11: an ask-question request with a question for a file name the store
\* holds is answered at once with status 200, the request's file_name and
\* question and the fixed disabled-feature answer; the handler never reaches
\* the model call, and the step changes neither the document store nor the
\* agent configuration.
C11_AskAnswersStatic ==
    /\ [](\A c \in Clients :
            req[c].op = "ask_question"
            => pc[c] = "done" /\ frame[c].llm_calls = 0 /\ frame[c].prompt_parts = <<>>)
    /\ [][\A c \in Clients :
            AsksAboutStored(c)
            => /\ pc'[c] = "done"
               /\ resp'[c].status = 200
               /\ resp'[c].body =
                     [file_name |-> req'[c].payload["file_name"],
                      question |-> req'[c].payload["question"],
                      answer |-> "Q&A feature is currently disabled in the BOL-only mode."]
               /\ frame'[c].llm_calls = 0
               /\ \A d \in Clients \ {c} : frame'[d] = frame[d] /\ pc'[d] = pc[d]
               /\ document_store' = document_store
               /\ agent_config' = agent_config]_vars

\* a question about a stored document has been answered while the upload
\* that stored it is still waiting for the model
C11_Witness ==
    \E c, u \in Clients :
        /\ Answered(c) /\ req[c].op = "ask_question"
        /\ resp[c].status = 200
        /\ resp[c].body.file_name = req[c].payload["file_name"]
        /\ resp[c].body.answer = "Q&A feature is currently disabled in the BOL-only mode."
        /\ pc[u] = "generate"
        /\ req[u].file.filename = req[c].payload["file_name"]
        /\ req[c].payload["file_name"] \in DOMAIN document_store

\* the request of c has passed input validation and its text decodes
PassesToModel(c) ==
    /\ req[c].op \in ExtractionOps
    /\ ~FileIsIncomplete(req[c].file)
    /\ ~UndecodableText(req[c].file)

\* the model call of the request of c comes back in this step
ModelReturnStep(c) == pc[c] = "generate" /\ frame[c].reply = None /\ frame'[c].reply # None

Written(c) ==
    /\ req[c].op \in ExtractionOps
    /\ ~FileIsIncomplete(req[c].file)
    /\ pc[c] \in {"generate", "done"}

EntryOf(request) ==
    [content |-> request.file.data, mime_type |-> request.file.content_type]

\* C13 as stated: once a request has passed input validation and written,
\* its file name maps to its own bytes for as long as the request is there,
\* whatever response it ends in.
C13_OwnBytesStay ==
    \A c \in Clients :
        Written(c)
        => /\ req[c].file.filename \in DOMAIN document_store
           /\ document_store[req[c].file.filename].content = req[c].file.data

\* C13 amended: the store write is made by the step in which file.read()
\* returns, before extraction is attempted, also when that step ends in the
\* 400 of a text that does not decode; from then on the name stays in the
\* store: no step removes a name, the return of the model call changes
\* nothing in the store whatever the response, and an entry changes only by
\* the store write of a request for the same name, which puts that request's
\* bytes there (last write wins); so an ask-question for the name of a
\* request that has written is never answered 404.
C13_WriteNeverUndone ==
    /\ [](\A c \in Clients :
            Written(c)
            => /\ req[c].file.filename \in DOMAIN document_store
               /\ AskQuestionResponse([file_name |-> req[c].file.filename,
                                        question |-> "Who is the carrier?"],
                                       document_store).status = 200)
    /\ [][/\ \A c \in Clients :
               /\ StoreStep(c)
                  => /\ frame[c].llm_calls = 0
                     /\ document_store'[req[c].file.filename] = EntryOf(req[c])
               /\ (pc[c] = "generate" /\ pc'[c] = "done") => document_store' = document_store
          /\ DOMAIN document_store \subseteq DOMAIN document_store'
          /\ \A n \in DOMAIN document_store :
               document_store'[n] # document_store[n]
               => \E d \in Clients :
                     /\ StoreStep(d) /\ req[d].file.filename = n
                     /\ document_store'[n] = EntryOf(req[d])]_vars

\* an upload answered 400 for its text and another answered with the
\* sentinel record: the store holds the bytes of both
C13_Witness ==
    \E c, d \in Clients :
        /\ Written(c) /\ Answered(c) /\ resp[c].status = 400
        /\ Written(d) /\ Replied(d) /\ HasErrorSentinel(resp[d].body)
        /\ req[c].file.filename # req[d].file.filename
        /\ document_store[req[c].file.filename] = EntryOf(req[c])
        /\ document_store[req[d].file.filename] = EntryOf(req[d])

\* C14: in every interleaving, what a request passes to the extraction
\* service (bytes, MIME type, file name, and so the prompt and attachment the
\* model gets and the file name of the sentinel record) is what that request
\* received, also when another request has written other bytes under the same
\* file name while this one was suspended in file.read() or in the model call.
C14_PassesOwnFile ==
    \A c \in Clients :
        Written(c)
        => /\ frame[c].passed = req[c].file
           /\ frame[c].contents = req[c].file.data
           /\ frame[c].mime_type = req[c].file.content_type
           /\ Called(c)
              => frame[c].prompt_parts =
                    extract_begin(req[c].file.data, req[c].file.filename,
                                  req[c].file.content_type).prompt_parts
           /\ (Replied(c) /\ ReplyFailure(frame[c].reply[1]) # "")
              => resp[c].body.file_name = req[c].file.filename

\* two requests for one file name with different bytes, both suspended in
\* the model call: the store holds the bytes of the second, the first has
\* passed its own
C14_Witness ==
    \E c, d \in Clients :
        /\ c # d
        /\ Called(c) /\ pc[c] = "generate"
        /\ Called(d) /\ pc[d] = "generate"
        /\ req[c].file.filename = req[d].file.filename
        /\ req[c].file.data # req[d].file.data
        /\ document_store[req[c].file.filename] = EntryOf(req[d])
        /\ frame[c].passed.data = req[c].file.data
        /\ frame[c].prompt_parts # frame[d].prompt_parts

\* the request of c, just arrived, is a configure-agent request
Configures(c) == Arrives(c) /\ req'[c].op = "configure_agent"

\* C15: in every interleaving the agent configuration is the initial empty
\* one until a configure-agent request arrives, and every change of it puts
\* there both values of one single configure-agent request, in one step and
\* with no state in between; no other handler changes it; and the
\* current_config a configure-agent request is answered with is the pair of
\* that request, also after a later request has replaced the configuration.
C15_ConfigNeverTorn ==
    /\ agent_config = NoConfig
    /\ [](\A c \in Clients :
            (Answered(c) /\ req[c].op = "configure_agent")
            => /\ resp[c].status = 200
               /\ resp[c].body.current_config = req[c].config)
    /\ [][/\ agent_config' # agent_config
             => \E c \in Clients :
                   /\ Configures(c)
                   /\ agent_config' = req'[c].config
                   /\ \A d \in Clients \ {c} : pc'[d] = pc[d]
          /\ \A c \in Clients :
               Configures(c)
               => /\ agent_config'.fields_to_extract = req'[c].config.fields_to_extract
                  /\ agent_config'.special_instructions = req'[c].config.special_instructions
                  /\ DOMAIN agent_config' = {"fields_to_extract", "special_instructions"}]_vars

\* two configure-agent requests that differ in both values: the
\* configuration is the pair of the second, the first was answered with its
\* own pair
C15_Witness ==
    \E c, d \in Clients :
        /\ Answered(c) /\ req[c].op = "configure_agent"
        /\ Answered(d) /\ req[d].op = "configure_agent"
        /\ req[c].config.fields_to_extract # req[d].config.fields_to_extract
        /\ req[c].config.special_instructions # req[d].config.special_instructions
        /\ req[c].config # NoConfig /\ req[d].config # NoConfig
        /\ agent_config = req[d].config
        /\ resp[c].body.current_config = req[c].config
        /\ resp[d].body.current_config = req[d].config

\* an ask-question request of the session is with the server or answered
UiAsking == req["ui"].op = "ask_question"

\* the process-document call of the session comes back in this step
UiProcessReturns == ui.at = "process" /\ ui'.at = "idle"

\* C16: the session sends an ask-question request only while it holds a
\* process-document result whose file_name is the name of the document it
\* processed last with success; that name is what the 2xx answer of the
\* process-document call left in current_doc_for_qa, the name of the file
\* uploaded for it, which the store then holds; the request carries that name
\* and a question; and it is answered 200, never 404.
C16_UiAskFindsDocument ==
    /\ [](/\ session_state.current_doc_for_qa # None
              => session_state.current_doc_for_qa[1].file_name \in DOMAIN document_store
          /\ (UiAsking \/ ui.at = "ask")
              => /\ session_state.deployment_result # None
                 /\ session_state.current_doc_for_qa # None
                 /\ session_state.deployment_result[1].file_name
                      = session_state.current_doc_for_qa[1].file_name
          /\ UiAsking
              => /\ req["ui"].payload["file_name"]
                      = session_state.current_doc_for_qa[1].file_name
                 /\ req["ui"].payload["question"] # ""
                 /\ Answered("ui")
                 /\ resp["ui"].status = 200
                 /\ resp["ui"].body.file_name = session_state.current_doc_for_qa[1].file_name)
    /\ [][/\ UiProcessReturns
              => IF session_state'.deployment_result # None
                 THEN /\ ~ui.conn_error /\ resp["ui"].status = 200
                      /\ session_state'.deployment_result = Some(resp["ui"].body)
                      /\ session_state'.current_doc_for_qa
                           = Some([file_name |-> req["ui"].file.filename])
                      /\ req["ui"].file.filename \in DOMAIN document_store
                 ELSE session_state'.current_doc_for_qa = session_state.current_doc_for_qa
          /\ ~UiProcessReturns
              => session_state'.current_doc_for_qa = session_state.current_doc_for_qa]_vars

\* a question about a document whose processing ended in the sentinel record
\* has been answered, after another document had been processed before it
C16_Witness ==
    /\ ui.at = "ask" /\ UiAsking /\ Answered("ui")
    /\ resp["ui"].status = 200
    /\ HasErrorSentinel(session_state.deployment_result[1])
    /\ resp["ui"].body.file_name = session_state.current_doc_for_qa[1].file_name
    /\ Cardinality(DOMAIN document_store) = 2

====
